---- MODULE Spec2Model ----
(***************************************************************************)
(* stm32pio GUI: ProjectsList (stm32pio/gui/list.py).                      *)
(*                                                                         *)
(* The interactive (UI) thread runs the handlers addListItem,              *)
(* addProjectsByPaths and removeProject, each as one step.  Every          *)
(* ProjectListItem is constructed by its own background thread (Complete). *)
(* saveInSettings puts a Worker on a QThreadPool of one thread; the body   *)
(* _saveInSettings runs there, concurrently with the UI thread, so it is   *)
(* modelled one list access at a time.                                     *)
(*                                                                         *)
(* stm32pio CLI: main (stm32pio/app.py), one run of a subcommand, with the *)
(* confirmation loop of 'clean' one reply at a time.                       *)
(***************************************************************************)
EXTENDS Integers, Sequences, FiniteSets, TLC

\* ---------------------------------------------------------------- bounds
MaxUnits == 3
MaxUnitsAllInputs == 2
MaxSaves == 2
MaxBatch == 2
MaxPrompts == 3

\* ------------------------------------------------------- program constants
MaxThreadCount == 1

Sentinel == "Loading..."

NoPayload == "None"

\* --------------------------------------------------------- the filesystem
\* Path strings the handlers are given.  "a" is relative to the working
\* directory /w, "/w/a" is the same directory in absolute form, "/w/b" is
\* another directory, "zz" does not exist in /w; "/v/zz" is a directory
\* elsewhere whose last component is "zz".
Paths == {"a", "/w/a", "/w/b", "zz"}

Exists(p) == p \in {"a", "/w/a", "/w/b", "/v/zz"}

\* pathlib.Path(p).resolve(): the canonical path of an existing entity
Resolve(p) == IF p = "a" THEN "/w/a" ELSE p

\* pathlib.Path.samefile of a canonical path and an existing candidate
SameFile(canon, p) == canon = Resolve(p)

\* pathlib.Path.name: the last component
BaseName(canon) ==
    IF canon = "/w/a" THEN "a"
    ELSE IF canon = "/w/b" THEN "b"
    ELSE IF canon = "/v/zz" THEN "zz"
    ELSE canon

\* ------------------------------------------------------------------ state
VARIABLES
    unit,       \* every ProjectListItem constructed so far, by identity
    projects,   \* self.projects: identities, in list order
    saves,      \* every Worker handed to the pool, by submission number
    queue,      \* the pool's queue: submission numbers not yet started
    store,      \* QSettings: the array app/projects
    lastWriter, \* submission number of the save that last touched the store
    trace,      \* what the latest step did, in order, if the UI thread took it
    cli         \* one run of the command line (stm32pio.app.main)

vars == <<unit, projects, saves, queue, store, lastWriter, trace, cli>>

Ev(e, a) == [ev |-> e, arg |-> a]

Units == 1..Len(unit)

Tickets == 1..Len(saves)

Loading(u) == unit[u].name = Sentinel

\* ------------------------------------------------------------ duplicates
\* as IsDuplicateOf, but an item without a payload is compared by the
\* directory its path argument stands for
IsDuplicateOf_byArgument(un, u, path) ==
    IF un[u].project # NoPayload
    THEN IF ~Exists(path)
         THEN FALSE
         ELSE SameFile(un[u].project, path) \/ path = un[u].name
    ELSE \/ path = un[u].name
         \/ Exists(path) /\ Exists(un[u].arg) /\ SameFile(Resolve(un[u].arg), path)

\* as IsDuplicateOf, but after a failed samefile the names are compared
IsDuplicateOf_nameAfterRaise(un, u, path) ==
    IF un[u].project # NoPayload
    THEN IF ~Exists(path)
         THEN path = un[u].name
         ELSE SameFile(un[u].project, path) \/ path = un[u].name
    ELSE path = un[u].name

\* one answer of each_project_is_duplicate_of, for the list item u
IsDuplicateOf(un, u, path) ==
    IF un[u].project # NoPayload
    THEN IF ~Exists(path)
         THEN FALSE
         ELSE SameFile(un[u].project, path) \/ path = un[u].name
    ELSE path = un[u].name

\* as DuplicateIndex, but the last matching item
DuplicateIndex_last(un, prj, path) ==
    LET hits == {i \in 1..Len(prj) : IsDuplicateOf(un, prj[i], path)}
    IN  IF hits = {} THEN -1
        ELSE (CHOOSE i \in hits : \A j \in hits : i >= j) - 1

\* next((idx for idx, d in enumerate(...) if d), -1), 0-based
DuplicateIndex(un, prj, path) ==
    LET hits == {i \in 1..Len(prj) : IsDuplicateOf(un, prj[i], path)}
    IN  IF hits = {} THEN -1
        ELSE (CHOOSE i \in hits : \A j \in hits : i <= j) - 1

\* --------------------------------------------------------- saveInSettings
\* A handler is read as an operator from st to st, where
\* st = [unit, projects, saves, queue, trace] is what the UI thread changes.
Here ==
    [unit |-> unit, projects |-> projects, saves |-> saves, queue |-> queue,
     trace |-> <<>>]

\* Worker(self._saveInSettings, ...), not started yet.  i, snap and k are
\* the body's locals: the position of its scan, projects_to_save, and the
\* position of its write loop.  clean and born are history: whether the list
\* changed under the running body, and how many items had been constructed
\* when the save was asked for.
NewWorker(born) ==
    [pc |-> "queued", i |-> 0, snap |-> <<>>, k |-> 0, clean |-> TRUE,
     born |-> born]

\* self.workers_pool.start(Worker(...)): one more Worker at the tail of the
\* pool's queue
saveInSettings(st) ==
    [st EXCEPT !.saves = Append(@, NewWorker(Len(st.unit))),
               !.queue = Append(@, Len(st.saves) + 1),
               !.trace = Append(@, Ev("saveInSettings", Len(st.saves) + 1))]

\* history: a structural change of the list is noted in every running body
Touch(sv) ==
    [t \in DOMAIN sv |->
        IF sv[t].pc \in {"wait", "filter", "group", "write"}
        THEN [sv[t] EXCEPT !.clean = FALSE] ELSE sv[t]]

\* ------------------------------------------------------------ addListItem
\* ProjectListItem(**list_item_kwargs): the wrapper, returned at once.
\* onInit, fired and resolved are history: the callback the caller gave,
\* how many callbacks the item has called, and whether init_project has
\* ended.
NewItem(path, kw) ==
    [arg |-> path, fromStartup |-> kw.fromStartup, name |-> Sentinel,
     project |-> NoPayload, onInit |-> kw.cb, callbacks |-> 0, fired |-> 0,
     deleted |-> FALSE, resolved |-> FALSE]

\* as Connect, but the callback is dropped
Connect_never(item, cb) == item

\* project.initialized.connect(on_initialized)
Connect(item, cb) == IF cb THEN [item EXCEPT !.callbacks = @ + 1] ELSE item

\* as addListItem, but save_config is run without the test of the parameters
addListItem_alwaysForwards(st, path, kw) ==
    LET dup == DuplicateIndex(st.unit, st.projects, path)
    IN  IF dup > -1
        THEN [st EXCEPT !.trace = @ \o
                 <<Ev("run save_config", dup), Ev("goToProject", dup),
                   Ev("return", st.projects[dup + 1])>>]
        ELSE LET id == Len(st.unit) + 1
             IN  [st EXCEPT
                    !.unit = Append(@, Connect(NewItem(path, kw), kw.cb)),
                    !.projects = Append(@, id),
                    !.saves = Touch(@),
                    !.trace = @ \o
                      <<Ev("beginInsertRows", Len(st.projects)),
                        Ev("append", id),
                        Ev("endInsertRows", Len(st.projects)),
                        Ev("return", id)>>]

\* as addListItem, but the item is appended after endInsertRows
addListItem_appendAfterEnd(st, path, kw) ==
    LET dup == DuplicateIndex(st.unit, st.projects, path)
    IN  IF dup > -1
        THEN [st EXCEPT !.trace = @ \o
                 <<Ev("goToProject", dup), Ev("return", st.projects[dup + 1])>>]
        ELSE LET id == Len(st.unit) + 1
             IN  [st EXCEPT
                    !.unit = Append(@, Connect(NewItem(path, kw), kw.cb)),
                    !.projects = Append(@, id),
                    !.saves = Touch(@),
                    !.trace = @ \o
                      <<Ev("beginInsertRows", Len(st.projects)),
                        Ev("endInsertRows", Len(st.projects)),
                        Ev("append", id),
                        Ev("return", id)>>]

\* kw = [fromStartup, cb, params]: from_startup, whether on_initialized is
\* given, whether project_kwargs['parameters'] is not empty
addListItem(st, path, kw) ==
    LET dup == DuplicateIndex(st.unit, st.projects, path)
    IN  IF dup > -1
        THEN [st EXCEPT !.trace = @ \o
                 (IF kw.params THEN <<Ev("run save_config", dup)>> ELSE <<>>)
                 \o <<Ev("goToProject", dup),
                      Ev("return", st.projects[dup + 1])>>]
        ELSE LET id == Len(st.unit) + 1
             IN  [st EXCEPT
                    !.unit = Append(@, Connect(NewItem(path, kw), kw.cb)),
                    !.projects = Append(@, id),
                    !.saves = Touch(@),
                    !.trace = @ \o
                      <<Ev("beginInsertRows", Len(st.projects)),
                        Ev("append", id),
                        Ev("endInsertRows", Len(st.projects)),
                        Ev("return", id)>>]

\* ----------------------------------------------------- addProjectsByPaths
\* The strings the GUI sends, and what QUrl makes of them
RawPaths == {"", "file:///w/b", "a", "/w/a", "zz", "http://h/a"}

UrlIsEmpty(s) == s = ""

UrlIsLocalFile(s) == s = "file:///w/b"

UrlIsRelative(s) == s \in {"", "a", "/w/a", "zz"}

ToLocalFile(s) == IF s = "file:///w/b" THEN "/w/b" ELSE ""

DefaultKwargs == [fromStartup |-> FALSE, cb |-> FALSE, params |-> FALSE]

Log(st, level) == [st EXCEPT !.trace = Append(@, Ev(level, 0))]

\* as AddOnePath, but a string that is no path is handed to addListItem too
AddOnePath_addsMalformed(st, s) ==
    IF UrlIsEmpty(s) THEN Log(st, "warning")
    ELSE IF UrlIsLocalFile(s) THEN addListItem(st, ToLocalFile(s), DefaultKwargs)
    ELSE addListItem(st, s, DefaultKwargs)

\* the body of the for loop, for one path_str
AddOnePath(st, s) ==
    IF UrlIsEmpty(s) THEN Log(st, "warning")
    ELSE IF UrlIsLocalFile(s) THEN addListItem(st, ToLocalFile(s), DefaultKwargs)
    ELSE IF UrlIsRelative(s) THEN addListItem(st, s, DefaultKwargs)
    ELSE Log(st, "error")

RECURSIVE AddPaths(_, _)
AddPaths(st, paths) ==
    IF paths = <<>> THEN st
    ELSE AddPaths(AddOnePath(st, Head(paths)), Tail(paths))

\* as BatchSaves, but the save is outside the test of len(paths)
BatchSaves_always(paths) == TRUE

\* whether a batch ends with saveInSettings()
BatchSaves(paths) == Len(paths) > 0

addProjectsByPaths(st, paths) ==
    LET done == IF Len(paths) > 0 THEN AddPaths(st, paths)
                ELSE Log(st, "warning")
    IN  IF BatchSaves(paths) THEN saveInSettings(done) ELSE done

\* ---------------------------------------------------------- removeProject
\* as RemoveAt, but the tail is popped
RemoveAt_tail(s, i) == SubSeq(s, 1, Len(s) - 1)

\* s.pop(i - 1): s without its i-th element
RemoveAt(s, i) == SubSeq(s, 1, i - 1) \o SubSeq(s, i + 1, Len(s))

\* as RemoveSaves, but without the fromStartup case
RemoveSaves_payloadOnly(item) == item.project # NoPayload

\* "Re-save the settings only if this project is saved in the settings"
RemoveSaves(item) == item.project # NoPayload \/ item.fromStartup

\* as removeProject, but without the test of the index, so that pop takes
\* a negative index from the tail as Python does
removeProject_unchecked(st, index) ==
    LET pos == IF index < 0 THEN Len(st.projects) + index + 1 ELSE index + 1
    IN  IF pos \in 1..Len(st.projects)
        THEN [st EXCEPT !.projects = RemoveAt(@, pos),
                        !.saves = Touch(@),
                        !.trace = @ \o <<Ev("beginRemoveRows", index),
                                         Ev("pop", st.projects[pos]),
                                         Ev("endRemoveRows", index)>>]
        ELSE st

\* index is 0-based, as the GUI gives it
removeProject(st, index) ==
    IF index \in 0..(Len(st.projects) - 1)
    THEN LET u == st.projects[index + 1]
             popped == [st EXCEPT
                          !.projects = RemoveAt(@, index + 1),
                          !.saves = Touch(@),
                          !.trace = @ \o <<Ev("beginRemoveRows", index),
                                           Ev("pop", u),
                                           Ev("endRemoveRows", index)>>]
             saved == IF RemoveSaves(st.unit[u]) THEN saveInSettings(popped)
                      ELSE popped
         IN  [saved EXCEPT !.unit[u].deleted = TRUE,
                           !.trace = Append(@, Ev("deleteLater", u))]
    ELSE st

\* -------------------------------------------------------------------- get
\* what get returns when the index is not in range(len(self.projects))
NoUnit == 0

\* the item at the index is returned to the QML side, or nothing is
get(st, index) ==
    [st EXCEPT !.trace = Append(@, Ev("return",
        IF index \in 0..(Len(st.projects) - 1) THEN st.projects[index + 1]
        ELSE NoUnit))]

\* --------------------------------------------------------- the UI thread
\* One handler call, from the state as it is; the trace is what it did
Call(st) ==
    /\ unit' = st.unit
    /\ projects' = st.projects
    /\ saves' = st.saves
    /\ queue' = st.queue
    /\ trace' = st.trace
    /\ UNCHANGED <<store, lastWriter, cli>>

\* The same call with the trace not observed
CallUnobserved(st) ==
    /\ unit' = st.unit
    /\ projects' = st.projects
    /\ saves' = st.saves
    /\ queue' = st.queue
    /\ trace' = <<>>
    /\ UNCHANGED <<store, lastWriter, cli>>

\* ------------------------------------------------- ProjectListItem's thread
\* init_project ends: the payload is there or the construction failed, the
\* name is no longer the sentinel, and initialized is emitted once
Complete(u, ok) ==
    /\ ~unit[u].resolved
    /\ ok => Exists(unit[u].arg)
    /\ unit' = [unit EXCEPT ![u] =
           [@ EXCEPT !.project = IF ok THEN Resolve(unit[u].arg) ELSE NoPayload,
                     !.name = IF ok THEN BaseName(Resolve(unit[u].arg))
                              ELSE unit[u].arg,
                     !.fired = @ + unit[u].callbacks,
                     !.resolved = TRUE]]
    /\ UNCHANGED <<projects, saves, queue, store, lastWriter, cli>>
    /\ trace' = <<>>

\* ------------------------------------------------------------ the pool
Executing == {t \in Tickets : saves[t].pc \in {"wait", "filter", "group", "write"}}

\* as PoolHasFreeThread, but without the limit on the threads
PoolHasFreeThread_always == TRUE

\* QThreadPool with setMaxThreadCount(1): a queued Worker starts when a
\* thread is free; setExpiryTimeout(-1): the thread never expires
PoolHasFreeThread == Cardinality(Executing) < MaxThreadCount

\* the pool takes the queued Workers in the order they were started
PoolNext(q) == 1

PoolStart ==
    /\ queue # <<>>
    /\ PoolHasFreeThread
    /\ LET n == PoolNext(queue)
           t == queue[n]
       IN  /\ queue' = RemoveAt(queue, n)
           /\ saves' = [saves EXCEPT ![t] = [@ EXCEPT !.pc = "wait", !.i = 1]]
    /\ UNCHANGED <<unit, projects, store, lastWriter, cli>>
    /\ trace' = <<>>

\* -------------------------------------------------------- _saveInSettings
\* as Loaded, but the wait is for the payload
Loaded_constructed(item) == item.project # NoPayload

\* project.name != 'Loading...'
Loaded(item) == item.name # Sentinel

\* one step of  while not all(... for project in self.projects): pass
SaveWait(t) ==
    /\ saves[t].pc = "wait"
    /\ LET i == saves[t].i
       IN  saves' = [saves EXCEPT ![t] =
               IF i > Len(projects) THEN [@ EXCEPT !.pc = "filter", !.i = 1]
               ELSE IF Loaded(unit[projects[i]]) THEN [@ EXCEPT !.i = i + 1]
               ELSE [@ EXCEPT !.i = 1]]
    /\ UNCHANGED <<unit, projects, queue, store, lastWriter, cli>>
    /\ trace' = <<>>

\* as Correct, but every item that is no longer loading is kept
Correct_loaded(item) == item.name # Sentinel

\* project.project is not None
Correct(item) == item.project # NoPayload

\* one step of  [project for project in self.projects if ...]
SaveFilter(t) ==
    /\ saves[t].pc = "filter"
    /\ LET i == saves[t].i
       IN  saves' = [saves EXCEPT ![t] =
               IF i > Len(projects) THEN [@ EXCEPT !.pc = "group", !.i = 0]
               ELSE IF Correct(unit[projects[i]])
                    THEN [@ EXCEPT !.i = i + 1, !.snap = Append(@, projects[i])]
               ELSE [@ EXCEPT !.i = i + 1]]
    /\ UNCHANGED <<unit, projects, queue, store, lastWriter, cli>>
    /\ trace' = <<>>

\* as ClearArray, but the saved array is left in place
ClearArray_keep(st) == st

\* settings.remove('projects')
ClearArray(st) == <<>>

\* beginGroup('app'); remove('projects'); beginWriteArray('projects')
SaveBegin(t) ==
    /\ saves[t].pc = "group"
    /\ store' = ClearArray(store)
    /\ lastWriter' = t
    /\ saves' = [saves EXCEPT ![t] = [@ EXCEPT !.pc = "write", !.k = 1]]
    /\ UNCHANGED <<unit, projects, queue, cli>>
    /\ trace' = <<>>

\* setArrayIndex(idx); setValue('path', value): idx is 0-based
SetArrayValue(st, idx, value) ==
    IF idx + 1 <= Len(st) THEN [st EXCEPT ![idx + 1] = value]
    ELSE Append(st, value)

\* str(project.project.path)
PathToSave(item) == item.project

\* one turn of the for loop, or endArray(); endGroup() after the last one
SaveWrite(t) ==
    /\ saves[t].pc = "write"
    /\ LET k == saves[t].k
       IN  IF k <= Len(saves[t].snap)
           THEN IF unit[saves[t].snap[k]].project = NoPayload
                THEN /\ saves' = [saves EXCEPT ![t] = [@ EXCEPT !.pc = "raised"]]
                     /\ UNCHANGED <<store, lastWriter>>
                ELSE /\ store' = SetArrayValue(store, k - 1,
                                     PathToSave(unit[saves[t].snap[k]]))
                     /\ lastWriter' = t
                     /\ saves' = [saves EXCEPT ![t] = [@ EXCEPT !.k = k + 1]]
           ELSE /\ saves' = [saves EXCEPT ![t] = [@ EXCEPT !.pc = "done"]]
                /\ UNCHANGED <<store, lastWriter>>
    /\ UNCHANGED <<unit, projects, queue, cli>>
    /\ trace' = <<>>

\* no command line is running: the GUI
CliOff ==
    [subcommand |-> "", quiet |-> FALSE, pc |-> "off", replies |-> <<>>,
     cleans |-> 0, raised |-> FALSE, ret |-> 0]

Init ==
    /\ unit = <<>>
    /\ projects = <<>>
    /\ saves = <<>>
    /\ queue = <<>>
    /\ store = <<>>
    /\ lastWriter = 0
    /\ trace = <<>>
    /\ cli = CliOff

Kwargs == [fromStartup : BOOLEAN, cb : BOOLEAN, params : BOOLEAN]

SeqsUpTo(S, n) == UNION {[1..m -> S] : m \in 0..n}

Batches == SeqsUpTo(RawPaths, MaxBatch)

\* The steps of the other threads: the items' constructions
Background ==
    \E u \in Units, ok \in BOOLEAN : Complete(u, ok)

\* The steps of the pool and of the save bodies it runs
Pool ==
    \/ PoolStart
    \/ \E t \in Tickets : SaveWait(t)
    \/ \E t \in Tickets : SaveFilter(t)
    \/ \E t \in Tickets : SaveBegin(t)
    \/ \E t \in Tickets : SaveWrite(t)

Bounded(n) == Len(unit') <= n /\ Len(saves') <= MaxSaves

\* The handlers one call at a time, every path with every keyword argument
Next ==
    \/ \E path \in Paths, kw \in Kwargs :
           Call(addListItem(Here, path, kw)) /\ Bounded(MaxUnitsAllInputs)
    \/ \E index \in -1..Len(projects) :
           Call(removeProject(Here, index)) /\ Bounded(MaxUnitsAllInputs)
    \/ Background

Spec == Init /\ [][Next]_vars

\* The batches the GUI sends
NextBatch ==
    \/ \E paths \in Batches :
           Call(addProjectsByPaths(Here, paths)) /\ Bounded(MaxUnitsAllInputs)
    \/ \E index \in -1..Len(projects) :
           Call(removeProject(Here, index)) /\ Bounded(MaxUnitsAllInputs)
    \/ Background

SpecBatch == Init /\ [][NextBatch]_vars

\* The save bodies against the list changing under them: batches of two
\* directories, never empty; what the handlers emit is not observed
SaveBatches == SeqsUpTo({"/w/a", "file:///w/b"}, MaxBatch) \ {<<>>}

NextSave ==
    \/ \E paths \in SaveBatches :
           CallUnobserved(addProjectsByPaths(Here, paths)) /\ Bounded(MaxUnits)
    \/ \E index \in 0..(Len(projects) - 1) :
           CallUnobserved(removeProject(Here, index)) /\ Bounded(MaxUnits)
    \/ Background
    \/ Pool

SpecSave == Init /\ [][NextSave]_vars

\* The same under fair scheduling: every thread that can take a step takes
\* one in the end, and every construction ends
Fair ==
    /\ \A u \in 1..MaxUnits :
           WF_vars(\E ok \in BOOLEAN : u \in Units /\ Complete(u, ok))
    /\ WF_vars(PoolStart)
    /\ \A t \in 1..MaxSaves :
           /\ WF_vars(t \in Tickets /\ SaveWait(t))
           /\ WF_vars(t \in Tickets /\ SaveFilter(t))
           /\ WF_vars(t \in Tickets /\ SaveBegin(t))
           /\ WF_vars(t \in Tickets /\ SaveWrite(t))

SpecSaveFair == SpecSave /\ Fair

\* The handlers as the QML side sees them, with the pool and the save
\* bodies running in the background
NextUI ==
    \/ \E paths \in SaveBatches :
           Call(addProjectsByPaths(Here, paths)) /\ Bounded(MaxUnitsAllInputs)
    \/ \E index \in 0..(Len(projects) - 1) :
           Call(removeProject(Here, index)) /\ Bounded(MaxUnitsAllInputs)
    \/ Background
    \/ Pool

SpecUI == Init /\ [][NextUI]_vars

\* Adds with every keyword argument, among them the add of a string that is
\* the name an item shows while it is loading
ForwardPaths == {"a", "/w/a", Sentinel}

NextForward ==
    \/ \E path \in ForwardPaths, kw \in Kwargs :
           Call(addListItem(Here, path, kw)) /\ Bounded(MaxUnitsAllInputs)
    \/ \E index \in 0..(Len(projects) - 1) :
           Call(removeProject(Here, index)) /\ Bounded(MaxUnitsAllInputs)
    \/ Background

SpecForward == Init /\ [][NextForward]_vars

\* The list under adds, removes and constructions, up to MaxUnits items:
\* paths that exist or not, in one string form or another, and a directory
\* whose name is a string that is no path from the working directory
ListPaths == {"a", "/w/a", "zz", "/v/zz"}

NextList ==
    \/ \E path \in ListPaths, p \in BOOLEAN :
           Call(addListItem(Here, path, [DefaultKwargs EXCEPT !.params = p]))
               /\ Bounded(MaxUnits)
    \/ \E index \in -1..Len(projects) :
           Call(removeProject(Here, index)) /\ Bounded(MaxUnits)
    \/ \E index \in -1..Len(projects) : Call(get(Here, index))
    \/ Background

SpecList == Init /\ [][NextList]_vars

\* ------------------------------------------------- stm32pio.app.main (CLI)
\* What the user types at the prompt of 'clean'
Replies ==
    {"y", "Y", "yes", "Yes", "YES", "true", "TRUE", "1",
     "n", "N", "no", "NO", "false", "False", "0", "", "maybe", "y "}

\* as Lower, but the reply is taken as typed
Lower_asTyped(s) == s

\* str.lower()
Lower(s) ==
    CASE s = "Y" -> "y"
      [] s \in {"Yes", "YES"} -> "yes"
      [] s = "TRUE" -> "true"
      [] s = "N" -> "n"
      [] s = "NO" -> "no"
      [] s = "False" -> "false"
      [] OTHER -> s

\* reply.lower() in ['y', 'yes', 'true', '1']
Affirms(reply) == Lower(reply) \in {"y", "yes", "true", "1"}

\* reply.lower() in ['n', 'no', 'false', '0']
Declines(reply) == Lower(reply) \in {"n", "no", "false", "0"}

\* "" stands for no arguments at all
Subcommands == {"", "status", "clean"}

\* main is entered with the arguments parsed; --quiet is an option of
\* 'clean' only
InitCli ==
    /\ unit = <<>>
    /\ projects = <<>>
    /\ saves = <<>>
    /\ queue = <<>>
    /\ store = <<>>
    /\ lastWriter = 0
    /\ trace = <<>>
    /\ \E sub \in Subcommands, q \in BOOLEAN :
           /\ q => sub = "clean"
           /\ cli = [CliOff EXCEPT !.subcommand = sub, !.quiet = q,
                                   !.pc = "start"]

CliStep(c) ==
    /\ cli' = c
    /\ UNCHANGED <<unit, projects, saves, queue, store, lastWriter, trace>>

\* except Exception: log_current_exception(logger); return -1
Raise(c) == [c EXCEPT !.raised = TRUE, !.ret = -1, !.pc = "done"]

\* no subcommand: "No arguments were given, exiting...", return 0
CliDispatch ==
    /\ cli.pc = "start"
    /\ CliStep(IF cli.subcommand = ""
               THEN [cli EXCEPT !.pc = "done", !.ret = 0]
               ELSE [cli EXCEPT !.pc = "construct"])

\* project = stm32pio.lib.Stm32pio(args.project_path), which may raise
CliConstruct(ok) ==
    /\ cli.pc = "construct"
    /\ CliStep(IF ~ok THEN Raise(cli)
               ELSE IF cli.subcommand = "status" THEN [cli EXCEPT !.pc = "return"]
               ELSE IF cli.quiet THEN [cli EXCEPT !.pc = "clean"]
               ELSE [cli EXCEPT !.pc = "prompt"])

\* one turn of the while True loop: reply = input(...)
CliReply(reply) ==
    /\ cli.pc = "prompt"
    /\ Len(cli.replies) < MaxPrompts
    /\ LET c == [cli EXCEPT !.replies = Append(@, reply)]
       IN  CliStep(IF Affirms(reply) THEN [c EXCEPT !.pc = "clean"]
                   ELSE IF Declines(reply) THEN [c EXCEPT !.pc = "return"]
                   ELSE c)

\* input() raises (the standard input is closed)
CliInputFails ==
    /\ cli.pc = "prompt"
    /\ CliStep(Raise(cli))

\* project.clean(), which may raise
CliClean(ok) ==
    /\ cli.pc = "clean"
    /\ LET c == [cli EXCEPT !.cleans = @ + 1]
       IN  CliStep(IF ok THEN [c EXCEPT !.pc = "return"] ELSE Raise(c))

\* return 0
CliReturn ==
    /\ cli.pc = "return"
    /\ CliStep([cli EXCEPT !.pc = "done", !.ret = 0])

NextCli ==
    \/ CliDispatch
    \/ \E ok \in BOOLEAN : CliConstruct(ok)
    \/ \E reply \in Replies : CliReply(reply)
    \/ CliInputFails
    \/ \E ok \in BOOLEAN : CliClean(ok)
    \/ CliReturn

SpecCli == InitCli /\ [][NextCli]_vars

\* ================================================================ claims
Count(tr, e) == Cardinality({n \in 1..Len(tr) : tr[n].ev = e})

Args(tr, e) == {tr[n].arg : n \in {m \in 1..Len(tr) : tr[m].ev = e}}

\* the first list position (0-based) whose item the rule matches, told
\* without DuplicateIndex: matched, and nothing before it is
FirstMatch(path, idx) ==
    /\ idx \in 0..(Len(projects) - 1)
    /\ IsDuplicateOf(unit, projects[idx + 1], path)
    /\ \A j \in 0..(idx - 1) : ~IsDuplicateOf(unit, projects[j + 1], path)

Matched(path) == \E n \in 1..Len(projects) : IsDuplicateOf(unit, projects[n], path)

\* C1: an add of a path the rule matches against an item of the list leaves
\* the list and the items as they are, emits no insert notification, emits
\* exactly one goToProject, with the index of the first matching item, and
\* returns that item; so the list holds no second item for it.
DedupIdempotence ==
    [][\A path \in Paths, kw \in Kwargs :
          (Matched(path) /\ Call(addListItem(Here, path, kw))) =>
              /\ projects' = projects
              /\ unit' = unit
              /\ Count(trace', "beginInsertRows") = 0
              /\ Count(trace', "append") = 0
              /\ Count(trace', "endInsertRows") = 0
              /\ Count(trace', "goToProject") = 1
              /\ Count(trace', "return") = 1
              /\ \A idx \in Args(trace', "goToProject") :
                     /\ FirstMatch(path, idx)
                     /\ Args(trace', "return") = {projects[idx + 1]}]_vars

\* a second add of a path already matched has acted: the list has two
\* items that both match, and the signal carried the first one's index
DedupIdempotenceWitness ==
    /\ Len(projects) = 2
    /\ Count(trace, "goToProject") = 1
    /\ Args(trace, "goToProject") = {0}
    /\ \E path \in Paths :
           /\ IsDuplicateOf(unit, projects[1], path)
           /\ IsDuplicateOf(unit, projects[2], path)

Constructed(u) == unit[u].project # NoPayload

\* C2: the list never holds two items whose payloads are constructed and
\* are the same filesystem entity.
NoDuplicates ==
    \A i, j \in 1..Len(projects) :
        (i < j /\ Constructed(projects[i]) /\ Constructed(projects[j]))
            => unit[projects[i]].project # unit[projects[j]].project

\* C8: a remove of an index in range submits exactly one save if the removed
\* item's payload was constructed or the item has fromStartup, and none
\* otherwise.
RemoveSaveGating ==
    [][\A index \in 0..(Len(projects) - 1) :
          Call(removeProject(Here, index)) =>
              LET it == unit[projects[index + 1]]
                  n == IF it.project # NoPayload \/ it.fromStartup THEN 1 ELSE 0
              IN  /\ Len(saves') = Len(saves) + n
                  /\ Len(queue') = Len(queue) + n
                  /\ Count(trace', "saveInSettings") = n
                  /\ Count(trace', "pop") = 1]_vars

\* a fromStartup item was removed while it was still loading, and the
\* remove submitted a save
RemoveSaveGatingWitness ==
    /\ Count(trace, "saveInSettings") = 1
    /\ \E u \in Args(trace, "pop") :
           unit[u].fromStartup /\ unit[u].project = NoPayload

Finishes(u) == u \in Units /\ Loading(u) /\ ~Loading(u)'

BatchSubmitsOneSave ==
    [][\A paths \in Batches :
          Call(addProjectsByPaths(Here, paths)) =>
              LET n == IF Len(paths) > 0 THEN 1 ELSE 0
              IN  /\ Len(saves') = Len(saves) + n
                  /\ Len(queue') = Len(queue) + n
                  /\ Count(trace', "saveInSettings") = n
                  /\ n = 1 => trace'[Len(trace')].ev = "saveInSettings"
                  /\ n = 0 => unit' = unit /\ projects' = projects]_vars

\* a batch of two paths, one accepted and one skipped, has been processed:
\* one item appended, one save submitted, as the last thing done
BatchSubmitsOneSaveWitness ==
    /\ Count(trace, "append") = 1
    /\ Count(trace, "warning") + Count(trace, "error") = 1
    /\ Count(trace, "saveInSettings") = 1
    /\ trace[Len(trace)].ev = "saveInSettings"

Range(sq) == {sq[n] : n \in 1..Len(sq)}

\* the canonical paths of the correct items of a list, in list order
RECURSIVE OkPaths(_)
OkPaths(prj) ==
    IF prj = <<>> THEN <<>>
    ELSE IF Constructed(Head(prj))
         THEN <<unit[Head(prj)].project>> \o OkPaths(Tail(prj))
         ELSE OkPaths(Tail(prj))

Failed(u) == ~Loading(u) /\ ~Constructed(u)

\* C3: whatever a save body has kept to write, and whatever the store
\* holds, comes from an item whose payload was constructed: never from one
\* still loading or failed, and never the sentinel name.
SaveNeverPersistsUnresolved ==
    /\ \A t \in Tickets :
           /\ saves[t].pc # "raised"
           /\ \A u \in Range(saves[t].snap) : Constructed(u) /\ ~Loading(u)
    /\ \A n \in 1..Len(store) :
           /\ store[n] # Sentinel
           /\ \E u \in Units : Constructed(u) /\ store[n] = unit[u].project

\* a save body has written a path while the list held a failed item and an
\* item still loading
SaveNeverPersistsUnresolvedWitness ==
    /\ store # <<>>
    /\ \E t \in Tickets : saves[t].pc = "write" /\ saves[t].k > 1
    /\ \E n \in 1..Len(projects) : Failed(projects[n])
    /\ \E n \in 1..Len(projects) : Loading(projects[n])

Finishing(t) == t \in Tickets /\ saves[t].pc = "write" /\ saves'[t].pc = "done"

\* C4: when a save body finishes and the list did not change while it ran,
\* the saved array is exactly the canonical paths of the correct items of
\* the list, in list order: no failed item, nothing left of an older array.
SaveIsFilteredOverwrite ==
    [][\A t \in 1..MaxSaves :
          (Finishing(t) /\ saves[t].clean) => store' = OkPaths(projects)]_vars

\* the second save has finished undisturbed on a list of a correct item, a
\* failed one and a correct one, and the array holds the two paths in order
SaveIsFilteredOverwriteWitness ==
    /\ Len(projects) = 3
    /\ Constructed(projects[1]) /\ Failed(projects[2]) /\ Constructed(projects[3])
    /\ Len(saves) = 2 /\ saves[2].pc = "done" /\ saves[2].clean
    /\ store = <<unit[projects[1]].project, unit[projects[3]].project>>
    /\ store[1] # store[2]

\* what the body t has written so far
Written(t) ==
    [n \in 1..(saves[t].k - 1) |-> unit[saves[t].snap[n]].project]

\* C5: at most one save body runs at a time, and while a body is between
\* beginGroup and endGroup the array holds what this body has written and
\* nothing of another one.
SaveMutualExclusion ==
    /\ Cardinality(Executing) <= 1
    /\ \A t \in Tickets :
           saves[t].pc = "write" => lastWriter = t /\ store = Written(t)

\* a body is in the middle of its writes while another save waits in the
\* pool's queue
SaveMutualExclusionWitness ==
    /\ queue # <<>>
    /\ \E t \in Tickets :
           saves[t].pc = "write" /\ saves[t].k = 2 /\ Len(saves[t].snap) = 2

\* C6: save bodies run in the order the saves were submitted; a save
\* submitted earlier never writes after a later one has; and what the last
\* submitted save wrote reflects a list state at or after its submission,
\* so it holds every correct item that was in the list from the submission
\* to the end of the body.
SaveOrdering ==
    /\ [](\A t1, t2 \in Tickets :
             (t1 < t2 /\ saves[t2].pc # "queued") => saves[t1].pc = "done")
    /\ [][lastWriter' >= lastWriter]_vars
    /\ [][\A t \in 1..MaxSaves :
             (Finishing(t) /\ t = Len(saves)) =>
                 \A u \in Range(projects) :
                     (u <= saves[t].born /\ Constructed(u))
                         => u \in Range(saves[t].snap)]_vars

\* C10: under fair scheduling, with every construction ending, every save
\* submitted is started, leaves its wait, writes the store and finishes.
SaveLiveness ==
    \A t \in 1..MaxSaves :
        (t \in Tickets) ~> (t \in Tickets /\ saves[t].pc = "done" /\ lastWriter >= t)

\* a save has finished that was submitted while an item was loading, one
\* that was then removed still loading
SaveLivenessWitness ==
    \E t \in Tickets :
        /\ saves[t].pc = "done"
        /\ ~saves[t].clean
        /\ \E u \in Units : unit[u].deleted /\ Loading(u) /\ u <= saves[t].born

\* (a) the payload is constructed and is the same filesystem entity
RuleA(u, path) ==
    Constructed(u) /\ Exists(path) /\ unit[u].project = Resolve(path)

\* (b) the displayed name is literally the candidate string
RuleB(u, path) == unit[u].name = path

\* the smallest 0-based list index whose item satisfies R, or -1
Smallest(R(_)) ==
    LET hits == {i \in 1..Len(projects) : R(projects[i])}
    IN  IF hits = {} THEN -1
        ELSE (CHOOSE i \in hits : \A j \in hits : i <= j) - 1

\* C11, as stated: the lookup returns the smallest index whose item
\* satisfies (a) or (b), and -1 if there is none, where a same-file check
\* that fails on a candidate that does not exist makes (a) false only.
DedupRuleAsStated ==
    \A path \in ListPaths :
        DuplicateIndex(unit, projects, path) =
            LET R(u) == RuleA(u, path) \/ RuleB(u, path) IN Smallest(R)

\* C11, amended: the lookup returns the smallest index whose item satisfies
\* (a) or (b), and -1 if there is none, except that for a candidate that
\* does not exist an item with a constructed payload is never a duplicate,
\* not even by its name; nothing is raised to the caller.
DedupRule ==
    \A path \in ListPaths :
        DuplicateIndex(unit, projects, path) =
            LET R(u) == /\ RuleA(u, path) \/ RuleB(u, path)
                        /\ Constructed(u) => Exists(path)
            IN  Smallest(R)

\* the lookup has returned 1 for a path that the second item matches by its
\* payload only and the first item does not match, while the list holds a
\* constructed item whose name is a candidate that does not exist
DedupRuleWitness ==
    /\ Len(projects) >= 2
    /\ Args(trace, "goToProject") = {1}
    /\ \E path \in ListPaths :
           /\ RuleA(projects[2], path) /\ ~RuleB(projects[2], path)
           /\ ~RuleA(projects[1], path) /\ ~RuleB(projects[1], path)
    /\ \E n \in 1..Len(projects), path \in ListPaths :
           Constructed(projects[n]) /\ ~Exists(path) /\ RuleB(projects[n], path)

\* C12: an accepted add appends the new item at the tail and touches no
\* other position; a construction that ends changes neither the order nor
\* the length of the list; a remove deletes the item at the given index only
\* and keeps the others in their order; so the list is always in the order
\* of the accepted adds.
OrderPreservation ==
    /\ [](\A i, j \in 1..Len(projects) : i < j => projects[i] < projects[j])
    /\ [][\A u \in 1..MaxUnits : Finishes(u) => projects' = projects]_vars
    /\ [][Len(projects') > Len(projects) =>
             /\ Len(unit') = Len(unit) + 1
             /\ Len(projects') = Len(projects) + 1
             /\ projects'[Len(projects')] = Len(unit')
             /\ \A n \in 1..Len(projects) : projects'[n] = projects[n]]_vars
    /\ [][Len(projects') < Len(projects) =>
             /\ Len(projects') = Len(projects) - 1
             /\ Count(trace', "beginRemoveRows") = 1
             /\ \A index \in Args(trace', "beginRemoveRows") :
                    \A n \in 1..Len(projects') :
                        projects'[n] = IF n <= index THEN projects[n]
                                       ELSE projects[n + 1]]_vars

\* three items were added, the third one's construction ended before the
\* first one's, and the second one was removed: the first and the third
\* are left, in that order
OrderPreservationWitness ==
    /\ Len(unit) = 3
    /\ projects = <<1, 3>>
    /\ Args(trace, "beginRemoveRows") = {1}
    /\ Loading(1) /\ ~Loading(3)

\* C13: a remove with an index below 0 or not below the length changes
\* nothing: the list and the items are as they were, no notification is
\* emitted, no save is submitted, no item is scheduled for deletion; a get
\* with such an index returns no item and changes nothing.
OutOfRangeNoOp ==
    [][\A index \in {-1, Len(projects)} :
          /\ Call(removeProject(Here, index)) =>
                 /\ UNCHANGED <<unit, projects, saves, queue, store, lastWriter>>
                 /\ trace' = <<>>
          /\ Call(get(Here, index)) =>
                 /\ UNCHANGED <<unit, projects, saves, queue, store, lastWriter>>
                 /\ trace' = <<Ev("return", NoUnit)>>]_vars

\* a get out of range has returned nothing on a list of two items, none of
\* them deleted, with no save submitted
OutOfRangeNoOpWitness ==
    /\ Len(projects) = 2
    /\ trace = <<Ev("return", NoUnit)>>
    /\ saves = <<>>
    /\ \A u \in Units : ~unit[u].deleted

\* a string of a batch that is empty, or neither a file:// URL nor a bare
\* relative string
Malformed(s) == s = "" \/ s = "http://h/a"

\* the path a well-formed string of a batch stands for
PathOf(s) == IF s = "file:///w/b" THEN "/w/b" ELSE s

\* addListItem for every string of a sequence, in order
RECURSIVE AddEach(_, _)
AddEach(st, ss) ==
    IF ss = <<>> THEN st
    ELSE AddEach(addListItem(st, PathOf(Head(ss)), DefaultKwargs), Tail(ss))

WellFormed(s) == ~Malformed(s)

\* C14: in a batch, an empty or malformed string constructs no item and
\* does not end the batch: the items and the list after the call are those
\* that addListItem gives for the well-formed strings alone, in batch
\* order, and every malformed string gave one diagnostic.
MalformedPathSkip ==
    [][\A paths \in Batches \ {<<>>} :
          Call(addProjectsByPaths(Here, paths)) =>
              LET good == SelectSeq(paths, WellFormed)
                  exp == AddEach(Here, good)
              IN  /\ unit' = exp.unit
                  /\ projects' = exp.projects
                  /\ Count(trace', "append") = Len(exp.unit) - Len(unit)
                  /\ Count(trace', "warning") + Count(trace', "error")
                         = Len(paths) - Len(good)
                  /\ Count(trace', "return") = Len(good)]_vars

\* a batch of a malformed string and then a path has been processed: the
\* diagnostic came first and the item was appended after it
MalformedPathSkipWitness ==
    /\ Len(trace) >= 2
    /\ trace[1].ev = "error"
    /\ trace[2].ev = "beginInsertRows"
    /\ Count(trace, "append") = 1

\* the n-th event of a trace is an append between beginInsertRows and
\* endInsertRows, both for the row the item gets
InsertBracketed(tr, n, row) ==
    /\ n > 1 /\ n < Len(tr)
    /\ tr[n - 1] = Ev("beginInsertRows", row)
    /\ tr[n + 1] = Ev("endInsertRows", row)

\* the n-th event of a trace is a pop between beginRemoveRows and
\* endRemoveRows, both for the index popped
RemoveBracketed(tr, n, index) ==
    /\ n > 1 /\ n < Len(tr)
    /\ tr[n - 1] = Ev("beginRemoveRows", index)
    /\ tr[n + 1] = Ev("endRemoveRows", index)

Positions(tr, e) == {n \in 1..Len(tr) : tr[n].ev = e}

\* C15: the list changes in a handler of the UI thread only, and there
\* between a begin notification and its end notification: every item that
\* comes into the list is appended between beginInsertRows and
\* endInsertRows for the row it gets, which is the length before the
\* append; an item that leaves the list is popped between beginRemoveRows
\* and endRemoveRows for its index; no begin is without its change; and no
\* step of a construction, of the pool or of a save body changes the list.
MutationBracketing ==
    /\ [][LET tr == trace'
              ins == Positions(tr, "append")
              del == Positions(tr, "pop")
          IN  /\ Len(projects') = Len(projects) + Cardinality(ins) - Cardinality(del)
              /\ projects' # projects => ins \cup del # {}
              /\ Count(tr, "beginInsertRows") = Cardinality(ins)
              /\ Count(tr, "endInsertRows") = Cardinality(ins)
              /\ Count(tr, "beginRemoveRows") = Cardinality(del)
              /\ Count(tr, "endRemoveRows") = Cardinality(del)
              /\ \A n \in ins :
                     LET row == Len(projects)
                                  + Cardinality({m \in ins : m < n})
                     IN  /\ InsertBracketed(tr, n, row)
                         /\ projects'[row + 1] = tr[n].arg
              /\ \A n \in del :
                     \E index \in 0..(Len(projects) - 1) :
                         /\ RemoveBracketed(tr, n, index)
                         /\ projects[index + 1] = tr[n].arg
                         /\ tr[n].arg \notin Range(projects')]_vars
    /\ [][(Background \/ Pool) => projects' = projects]_vars

\* a second item has been appended, inside its bracket for row 1, while a
\* save body was running
MutationBracketingWitness ==
    /\ Positions(trace, "append") = {2}
    /\ InsertBracketed(trace, 2, 1)
    /\ Len(projects) = 2
    /\ Executing # {}

StillLoading == \E n \in 1..Len(projects) : Loading(projects[n])

\* C16: a save body leaves its wait only when no item of the list has the
\* sentinel name, and reads no item for its projects_to_save while an item of
\* the list has it, also when the UI thread adds or removes items while
\* the body scans the list or between the wait and the filter.
SaveCompletenessPrecondition ==
    [][\A t \in 1..MaxSaves :
          /\ (t \in Tickets /\ saves[t].pc = "wait" /\ saves'[t].pc = "filter")
                 => ~StillLoading
          /\ (t \in Tickets /\ saves[t].pc = "filter" /\ saves'[t] # saves[t]
                 /\ saves[t].i <= Len(projects))
                 => ~StillLoading]_vars

\* the candidate is another string for the directory the item was added with
OtherFormOf(u, path) ==
    /\ path # unit[u].arg
    /\ Exists(path) /\ Exists(unit[u].arg)
    /\ Resolve(path) = Resolve(unit[u].arg)

\* C17: while an item is loading, an add of another string for the same
\* directory does not find it as a duplicate, so, no other item of the list
\* matching, a second item is appended for the candidate; once the item
\* has its payload, the same add finds a duplicate and appends nothing.
DedupRaceWindow ==
    [][\A path \in ListPaths, n \in 1..MaxUnits :
          (/\ n <= Len(projects)
           /\ OtherFormOf(projects[n], path)
           /\ Call(addListItem(Here, path, DefaultKwargs))) =>
              LET u == projects[n]
                  others == \E m \in 1..Len(projects) :
                                /\ ~Loading(projects[m])
                                /\ RuleA(projects[m], path) \/ RuleB(projects[m], path)
              IN  /\ (Loading(u) /\ ~others) =>
                         /\ Len(projects') = Len(projects) + 1
                         /\ unit'[projects'[Len(projects')]].arg = path
                         /\ Count(trace', "goToProject") = 0
                  /\ Constructed(u) =>
                         /\ projects' = projects
                         /\ unit' = unit
                         /\ Count(trace', "goToProject") = 1]_vars

\* both sides of the window have happened: the list holds two items for
\* one directory, added by different strings, and a later add of the
\* second string, the first item having its payload, went to index 0
DedupRaceWindowWitness ==
    /\ Len(projects) = 2
    /\ OtherFormOf(projects[1], unit[projects[2]].arg)
    /\ Constructed(projects[1])
    /\ trace = <<Ev("goToProject", 0), Ev("return", projects[1])>>

\* C18: an add that finds a duplicate runs save_config on the existing item
\* exactly once if the caller gave project parameters, whatever the state of
\* that item, and before goToProject is emitted; it runs nothing if no
\* parameters were given; either way no item is constructed and no callback
\* is connected.
ParameterForwarding ==
    [][\A path \in ForwardPaths, kw \in Kwargs :
          (Matched(path) /\ Call(addListItem(Here, path, kw))) =>
              LET tr == trace'
              IN  /\ unit' = unit
                  /\ projects' = projects
                  /\ Count(tr, "goToProject") = 1
                  /\ \A idx \in Args(tr, "goToProject") :
                         /\ FirstMatch(path, idx)
                         /\ IF kw.params
                            THEN /\ Count(tr, "run save_config") = 1
                                 /\ tr[1] = Ev("run save_config", idx)
                                 /\ tr[2] = Ev("goToProject", idx)
                            ELSE /\ Count(tr, "run save_config") = 0
                                 /\ tr[1] = Ev("goToProject", idx)]_vars

\* save_config has been run on the second item of the list, which is still
\* loading, for an add that also gave a callback
ParameterForwardingWitness ==
    /\ Len(projects) = 2
    /\ Loading(projects[2]) /\ ~unit[projects[2]].resolved
    /\ Len(trace) > 0
    /\ trace[1] = Ev("run save_config", 1)
    /\ \A u \in Units : unit[u].callbacks = 0

\* no construction is outstanding and no save is queued or running
Quiescent ==
    /\ \A u \in Units : unit[u].resolved
    /\ queue = <<>>
    /\ \A t \in Tickets : saves[t].pc = "done"

\* C19: with addProjectsByPaths and removeProject only, whenever nothing is
\* outstanding the saved array is the canonical paths of the correct items
\* of the list, in list order: no correct item of the list is missing from
\* it and no removed item is left in it.
StoreAgreesWhenQuiescent ==
    Quiescent => store = OkPaths(projects)

\* the replies that mean yes and those that mean no, in every case
YesReplies == {"y", "Y", "yes", "Yes", "YES", "true", "TRUE", "1"}

NoReplies == {"n", "N", "no", "NO", "false", "False", "0"}

\* C20: for 'clean', clean() is called at most once; without --quiet only
\* after a reply that means yes, a reply that means no ends the command
\* with nothing cleaned, any other reply leads to the prompt again with
\* nothing cleaned; with --quiet a constructed project is cleaned once and
\* nothing is asked; main returns 0, and -1 exactly when an exception was
\* raised.
CleanConfirmation ==
    LET r == cli.replies
        n == Len(cli.replies)
    IN  /\ cli.pc = "done" => cli.ret = IF cli.raised THEN -1 ELSE 0
        /\ cli.subcommand = "clean" =>
               /\ cli.cleans <= 1
               /\ \A m \in 1..(n - 1) : r[m] \notin YesReplies \cup NoReplies
               /\ cli.quiet =>
                      /\ n = 0
                      /\ (cli.pc = "done" /\ ~cli.raised) => cli.cleans = 1
               /\ (~cli.quiet /\ cli.cleans = 1) => n > 0 /\ r[n] \in YesReplies
               /\ (n > 0 /\ r[n] \in YesReplies) =>
                      cli.pc = "clean" \/ cli.cleans = 1
               /\ (n > 0 /\ r[n] \in NoReplies) =>
                      cli.cleans = 0 /\ ~cli.raised /\ cli.pc \in {"return", "done"}
               /\ (n > 0 /\ r[n] \notin YesReplies \cup NoReplies) =>
                      cli.cleans = 0 /\ (cli.pc = "prompt" \/ cli.raised)

\* 'clean' without --quiet has returned 0 after a reply that asked again
\* and a YES in upper case, with the project cleaned once
CleanConfirmationWitness ==
    /\ cli.subcommand = "clean" /\ ~cli.quiet
    /\ cli.replies = <<"maybe", "YES">>
    /\ cli.cleans = 1
    /\ cli.pc = "done" /\ cli.ret = 0
====
